---- MODULE Spec2Model ----
(***************************************************************************)
(* SafeAudioEngine (src/audioEngine.ts) as a state machine.                *)
(*                                                                         *)
(* Units.  Gains are integers in units of 0.0001 (0.45 = 4500, the fade-in *)
(* floor 0.0001 = 1).  Frequencies are integers in Hz.  Time is counted in *)
(* slots of 60 ms (the stop delay of 180 ms = 3 slots, the destroy delay   *)
(* of 300 ms = 5 slots).                                                   *)
(*                                                                         *)
(* Scheduling.  JavaScript runs one task at a time: a caller task (one or  *)
(* more synchronous API calls), or a timer callback.  After each task the  *)
(* microtask queue mq (promise continuations, FIFO) is drained before the  *)
(* next timer callback runs or time passes.                                *)
(***************************************************************************)
EXTENDS Integers, Sequences, FiniteSets, TLC

\* ---------------------------------------------------------------- constants
MAX_SAFE_GAIN == 4500
MIN_FREQ == 20
MAX_FREQ == 20000
FADE_FLOOR == 1
INITIAL_VOL == 1200
SlotMs == 60
FADE_OUT_MS == 120
StopDelay == 3
DestroyDelay == 5
CR_TONE_TARGET == 5000
UNITY == 10000
NOISE_DEFAULT_PCT == 30

\* the Tuner's volume when nothing is stored, x 0.0001
TUNER_INITIAL_VOL == 1000

\* the Wizard's initial volume state, 0.12
WIZARD_VOL == 1200

\* ------------------------------------------------------------------- bounds
MaxCalls == 2

\* calls explored when the caller uses the sequencer only
MaxSeqCalls == 3

\* calls explored when the caller uses residual inhibition only
MaxRiCalls == 3

\* calls explored when the caller destroys the engine
MaxDestroyCalls == 3

\* calls explored when the caller uses amplitude modulation only
MaxAmCalls == 2

\* engine calls explored when the caller is the Wizard
MaxWizCalls == 6

\* sequencer ticks explored when the rejection loop is run draw by draw
MaxTicks == 4

\* the draws of one tick are counted up to this many
MaxDraws == 3

\* ------------------------------------------------------------------ helpers
Max(a, b) == IF a >= b THEN a ELSE b
Min(a, b) == IF a <= b THEN a ELSE b

\* a lower bound of 0 only: the upper cap is missing
clampGainNoCap(v) == Max(0, v)

\* the cap only: negative volumes pass
clampGainNoFloor(v) == Min(v, MAX_SAFE_GAIN)

clampGain(v) == Max(0, Min(v, MAX_SAFE_GAIN))

\* only the lower bound is applied
clampFreqNoMax(f) == Max(MIN_FREQ, f)

clampFreq(f) == Max(MIN_FREQ, Min(f, MAX_FREQ))

KnownWaves == {"sine", "square", "sawtooth", "triangle", "white", "pink", "brown"}

\* GAIN_SCALAR in percent
GAIN_SCALAR(w) ==
    CASE w = "sine" -> 100
      [] w = "square" -> 15
      [] w = "sawtooth" -> 20
      [] w = "triangle" -> 50
      [] w = "white" -> 15
      [] w = "pink" -> 50
      [] w = "brown" -> 100

\* every lookup falls back to 1
ScalarOrUnity(w, dflt) == IF w \in KnownWaves THEN GAIN_SCALAR(w) ELSE 100

\* GAIN_SCALAR[w] ?? dflt
ScalarOr(w, dflt) == IF w \in KnownWaves THEN GAIN_SCALAR(w) ELSE dflt

\* vol * scalar, the scalar given in percent
Scaled(v, pct) == (v * pct) \div 100

\* two digits of the second ratio are transposed
ratiosTransposed == <<773, 876, 1133, 1227>>

\* the four coordinated-reset ratios, in thousandths
ratios == <<773, 867, 1133, 1227>>

\* ------------------------------------------------------------------- inputs
\* The play* calls a caller may issue.  a: q, tempo (slots), modulation rate
\* (Hz), beat frequency (Hz) or duration (slots); b: modulation depth (units
\* of 0.0001); given: whether playNoise received a centre frequency.
\* "organ" and "violet" are identifiers outside the declared types, as an
\* untyped caller or a stored therapy parameter can pass them: the assignment
\* of such a string to osc.type is ignored, and noiseBuf takes its last branch.
Requests == <<
    [op |-> "tone", freq |-> 1000, wave |-> "square", given |-> TRUE, a |-> 0, b |-> 0],
    [op |-> "tone", freq |-> 30000, wave |-> "organ", given |-> TRUE, a |-> 0, b |-> 0],
    [op |-> "noise", freq |-> 5, wave |-> "white", given |-> TRUE, a |-> 1, b |-> 0],
    [op |-> "noise", freq |-> 0, wave |-> "brown", given |-> FALSE, a |-> 1, b |-> 0],
    [op |-> "notch", freq |-> 4000, wave |-> "pink", given |-> TRUE, a |-> 6, b |-> 0],
    [op |-> "cr", freq |-> 4000, wave |-> "sine", given |-> TRUE, a |-> 2, b |-> 0],
    [op |-> "am", freq |-> 1000, wave |-> "sine", given |-> TRUE, a |-> 10, b |-> 7000],
    [op |-> "binaural", freq |-> 400, wave |-> "sine", given |-> TRUE, a |-> 10, b |-> 0],
    [op |-> "ri", freq |-> 4000, wave |-> "sine", given |-> TRUE, a |-> 2, b |-> 0],
    [op |-> "phase", freq |-> 5, wave |-> "sine", given |-> TRUE, a |-> 0, b |-> 0],
    [op |-> "noise", freq |-> 0, wave |-> "pink", given |-> TRUE, a |-> 1, b |-> 0],
    [op |-> "am", freq |-> 30000, wave |-> "sine", given |-> TRUE, a |-> 4, b |-> 10000],
    [op |-> "binaural", freq |-> 19995, wave |-> "sine", given |-> TRUE, a |-> 10, b |-> 0],
    [op |-> "noise", freq |-> 0, wave |-> "violet", given |-> FALSE, a |-> 1, b |-> 0],
    [op |-> "ri", freq |-> 4000, wave |-> "sine", given |-> TRUE, a |-> 5, b |-> 0] >>

\* the last request, a residual-inhibition session that outlasts the delay of
\* stop(), is made by the residual-inhibition caller below
ReqIds == 1..(Len(Requests) - 1)

\* arguments of setVolume: below 0, in range, above the cap
Volumes == {-500, 3000, 9000}

\* arguments of updateOscFrequency / updateFilterFrequency
UpdateFreqs == {5, 440, 30000}

\* ------------------------------------------------------------------- state
VARIABLES
    ctx,            \* this.ctx: 0 = null, else the number of the context
    ctxMade,        \* contexts created so far
    made,           \* master-chain nodes created so far (their identities)
    masterGain,     \* this.masterGain: [id, value, target, by]; id 0 = null
    limiter,        \* this.limiter: identity, 0 = null
    analyser,       \* this.analyser: identity, 0 = null
    edges,          \* connections of the master chain, <<from, to>>; 0 = destination
    sources,        \* this.sources
    nodes,          \* this.nodes
    noiseCache,     \* this.noiseCache: colour -> number of the context it was built in, 0 = absent
    noiseUse,       \* colour -> buffers generated so far, and requests served so far
    sequencerTimer, \* this.sequencerTimer: timer id, 0 = null
    riTimeout,      \* this.riTimeout: timer id, 0 = null
    vol,            \* this._vol
    playing,        \* this._playing
    timers,         \* pending timeouts and intervals, in registration order
    mq,             \* microtask queue: promise continuations, FIFO
    inCaller,       \* the running task is caller code (it may issue further calls)
    ncalls,         \* API calls issued so far
    fadeOutAge,     \* slots since a fade-out was programmed after the last fade-in; -1 = none
    firedDead,      \* a timer pending when stop()/play* was invoked fired afterwards
    finished,       \* invocations of onFinish
    stopSeen,       \* what the caller's continuation of stop() last saw
    solo,           \* the only call so far is one playResidualInhibition
    volArg,         \* the argument of the last setVolume call: {} or {v}
    stopResolved,   \* the last stop() promise resolved: {} or {[live, after]}, after in slots
    destroyed,      \* the number of the call that was destroy(); 0 = not called
    awaited,        \* every call so far was issued with no earlier call's promise pending
    buildSeen,      \* what the last play* saw when it began to build its graph
    tunerVolume,    \* the Tuner's volume state, x 0.0001
    waveType,       \* the Tuner's waveType state
    isPlaying,      \* the Tuner's isPlaying state
    isPhaseInverted, \* the Tuner's isPhaseInverted state
    sourceRef,      \* the Tuner's sourceRef holds a source
    masterGainRef,  \* the value programmed into the Tuner's master gain, x 0.0001; -1: no node yet
    phaseGainRef,   \* the value programmed into the Tuner's phase gain; 0: no node yet
    loopCur,        \* the sequencer's `cur`: -1 before the first tick
    loopNext,       \* the sequencer's `next`: -1 = not assigned yet
    loopPc,         \* where a tick is: "idle", "draw" (before Math.random) or "test"
    loopDraws,      \* draws made in the current tick, counted up to MaxDraws
    loopTicks,      \* ticks begun so far
    wizStep,        \* the Wizard's step state
    accepted,       \* the Wizard's accepted state
    selectedRef,    \* the Wizard's selectedRef state: 0 = null, else the frequency
    wizPlaying,     \* the Wizard's playing state
    prevPlayingRef, \* the Wizard's prevPlayingRef.current: 0 = null, else the frequency
    wizMounted,     \* the Wizard is mounted
    completedAt     \* the values of the step state at which onComplete was invoked

\* the Advanced Mode component drives a graph of its own
tunerVars == << tunerVolume, waveType, isPlaying, isPhaseInverted, sourceRef, masterGainRef,
                phaseGainRef >>

engineVars == << ctx, ctxMade, made, masterGain, limiter, analyser, edges, sources, nodes,
                 noiseCache, noiseUse, sequencerTimer, riTimeout, vol, playing, timers, mq,
                 inCaller, ncalls, fadeOutAge, firedDead, finished, stopSeen, solo, volArg,
                 awaited, buildSeen, stopResolved, destroyed >>

\* one tick of the Coordinated Reset sequencer taken draw by draw
loopVars == << loopCur, loopNext, loopPc, loopDraws, loopTicks >>

\* the frequency-matching Wizard's state
wizardVars == << wizStep, accepted, selectedRef, wizPlaying, prevPlayingRef, wizMounted,
                 completedAt >>

vars == << engineVars, tunerVars, loopVars, wizardVars >>

\* the engine's fields and the event loop's queues as one record
Cur == [ctx |-> ctx, ctxMade |-> ctxMade, made |-> made, masterGain |-> masterGain,
        limiter |-> limiter, analyser |-> analyser, edges |-> edges,
        sources |-> sources, nodes |-> nodes, noiseCache |-> noiseCache,
        noiseUse |-> noiseUse,
        sequencerTimer |-> sequencerTimer, riTimeout |-> riTimeout, vol |-> vol,
        playing |-> playing, timers |-> timers, mq |-> mq,
        fadeOutAge |-> fadeOutAge, firedDead |-> firedDead, finished |-> finished,
        stopSeen |-> stopSeen, buildSeen |-> buildSeen, stopResolved |-> stopResolved,
        destroyed |-> destroyed]

CommitEngine(e) ==
    /\ ctx' = e.ctx
    /\ ctxMade' = e.ctxMade
    /\ made' = e.made
    /\ masterGain' = e.masterGain
    /\ limiter' = e.limiter
    /\ analyser' = e.analyser
    /\ edges' = e.edges
    /\ sources' = e.sources
    /\ nodes' = e.nodes
    /\ noiseCache' = e.noiseCache
    /\ noiseUse' = e.noiseUse
    /\ sequencerTimer' = e.sequencerTimer
    /\ riTimeout' = e.riTimeout
    /\ vol' = e.vol
    /\ playing' = e.playing
    /\ timers' = e.timers
    /\ mq' = e.mq
    /\ fadeOutAge' = e.fadeOutAge
    /\ firedDead' = e.firedDead
    /\ finished' = e.finished
    /\ stopSeen' = e.stopSeen
    /\ buildSeen' = e.buildSeen
    /\ stopResolved' = e.stopResolved
    /\ destroyed' = e.destroyed

\* a step of the engine alone
Commit(e) == CommitEngine(e) /\ UNCHANGED << tunerVars, loopVars, wizardVars >>

NoCont == [k |-> "none", req |-> 0, inv |-> 0]
\* ready: the last fade-in found the playing flag set and a source pushed
NoGain == [id |-> 0, value |-> 0, target |-> 0, by |-> "none", ready |-> FALSE]
Colors == {"white", "pink", "brown", "violet"}

Init ==
    /\ ctx = 0
    /\ ctxMade = 0
    /\ made = 0
    /\ masterGain = NoGain
    /\ limiter = 0
    /\ analyser = 0
    /\ edges = {}
    /\ sources = << >>
    /\ nodes = << >>
    /\ noiseCache = [c \in Colors |-> 0]
    /\ noiseUse = [c \in Colors |-> [made |-> 0, served |-> 0]]
    /\ sequencerTimer = 0
    /\ riTimeout = 0
    /\ vol = INITIAL_VOL
    /\ playing = FALSE
    /\ timers = << >>
    /\ mq = << >>
    /\ inCaller = FALSE
    /\ ncalls = 0
    /\ fadeOutAge = -1
    /\ firedDead = FALSE
    /\ finished = 0
    /\ stopSeen = "none"
    /\ solo = FALSE
    /\ volArg = {}
    /\ loopCur = -1
    /\ loopNext = -1
    /\ loopPc = "idle"
    /\ loopDraws = 0
    /\ loopTicks = 0
    /\ wizStep = 0
    /\ accepted = FALSE
    /\ selectedRef = 0
    /\ wizPlaying = FALSE
    /\ prevPlayingRef = 0
    /\ wizMounted = FALSE
    /\ completedAt = {}
    /\ awaited = TRUE
    /\ buildSeen = "none"
    /\ stopResolved = {}
    /\ tunerVolume = TUNER_INITIAL_VOL
    /\ waveType = "sine"
    /\ isPlaying = FALSE
    /\ isPhaseInverted = FALSE
    /\ sourceRef = FALSE
    /\ masterGainRef = -1
    /\ phaseGainRef = 0
    /\ destroyed = 0

\* ------------------------------------------------------- engine operations
\* getCtx(): create the context when there is none
getCtx(e) ==
    IF e.ctx = 0
    THEN [e EXCEPT !.ctx = e.ctxMade + 1, !.ctxMade = e.ctxMade + 1]
    ELSE e

\* the three nodes are created on every call
masterRebuilds(e) ==
    LET e0 == getCtx(e)
    IN  [e0 EXCEPT !.made = @ + 3,
                   !.masterGain = [id |-> e0.made + 1, value |-> 0, target |-> 0, by |-> "init",
                                   ready |-> FALSE],
                   !.limiter = e0.made + 2,
                   !.analyser = e0.made + 3,
                   !.edges = @ \cup { <<e0.made + 1, e0.made + 2>>, <<e0.made + 2, e0.made + 3>>,
                                      <<e0.made + 3, 0>> }]

\* the gain is connected to the analyser: the limiter is left out of the path
masterBypassesLimiter(e) ==
    LET e0 == getCtx(e)
        e1 == IF e0.masterGain.id = 0
              THEN [e0 EXCEPT !.made = @ + 1,
                              !.masterGain = [id |-> e0.made + 1, value |-> 0,
                                              target |-> 0, by |-> "init",
                                              ready |-> FALSE]]
              ELSE e0
        e2 == IF e1.limiter = 0
              THEN [e1 EXCEPT !.made = @ + 1, !.limiter = e1.made + 1]
              ELSE e1
        e3 == IF e2.analyser = 0
              THEN [e2 EXCEPT !.made = @ + 1, !.analyser = e2.made + 1]
              ELSE e2
    IN  [e3 EXCEPT !.edges = {x \in @ : x[1] \notin {e3.masterGain.id, e3.limiter, e3.analyser}}
                              \cup { <<e3.masterGain.id, e3.analyser>>, <<e3.analyser, 0>> }]

\* master(): create what is missing of gain -> limiter -> analyser; disconnect
\* the outputs of the three, then connect them again.  A connection is a pair:
\* Web Audio ignores a connect() that repeats an existing connection.
master(e) ==
    LET e0 == getCtx(e)
        e1 == IF e0.masterGain.id = 0
              THEN [e0 EXCEPT !.made = @ + 1,
                              !.masterGain = [id |-> e0.made + 1, value |-> 0,
                                              target |-> 0, by |-> "init",
                                              ready |-> FALSE]]
              ELSE e0
        e2 == IF e1.limiter = 0
              THEN [e1 EXCEPT !.made = @ + 1, !.limiter = e1.made + 1]
              ELSE e1
        e3 == IF e2.analyser = 0
              THEN [e2 EXCEPT !.made = @ + 1, !.analyser = e2.made + 1]
              ELSE e2
    IN  [e3 EXCEPT !.edges = {x \in @ : x[1] \notin {e3.masterGain.id, e3.limiter, e3.analyser}}
                              \cup { <<e3.masterGain.id, e3.limiter>>,
                                     <<e3.limiter, e3.analyser>>,
                                     <<e3.analyser, 0>> }]

\* the master gain is programmed whether the engine plays or not
setVolumeWhenIdle(e, v) ==
    LET e1 == [e EXCEPT !.vol = clampGain(v)]
    IN  IF e1.masterGain.id # 0 /\ e1.ctx # 0
        THEN [e1 EXCEPT !.masterGain.target = e1.vol, !.masterGain.by = "setVolume"]
        ELSE e1

\* setVolume(v)
setVolume(e, v) ==
    LET e1 == [e EXCEPT !.vol = clampGain(v)]
    IN  IF e1.masterGain.id # 0 /\ e1.ctx # 0 /\ e1.playing
        THEN [e1 EXCEPT !.masterGain.target = e1.vol, !.masterGain.by = "setVolume"]
        ELSE e1

\* fadeIn(target): floor, then exponential ramp to max(clampGain(target), floor)
fadeIn(e, target) ==
    IF e.masterGain.id = 0 \/ e.ctx = 0
    THEN e
    ELSE [e EXCEPT !.masterGain.value = FADE_FLOOR,
                   !.masterGain.target = Max(clampGain(target), FADE_FLOOR),
                   !.masterGain.by = "fadeIn",
                   !.masterGain.ready = e.playing /\ e.sources # << >>,
                   !.fadeOutAge = -1]

\* clearInterval / clearTimeout of handle h (0 = null)
Clear(ts, h) == SelectSeq(ts, LAMBDA t : h = 0 \/ t.id # h)

\* the sources are stopped but stay in the list
cleanupKeepsSources(e) ==
    [e EXCEPT !.nodes = << >>,
              !.timers = Clear(Clear(@, e.sequencerTimer), e.riTimeout),
              !.sequencerTimer = 0,
              !.riTimeout = 0,
              !.playing = FALSE,
              !.fadeOutAge = -1]

\* the playing flag is left set
cleanupKeepsFlag(e) ==
    [e EXCEPT !.sources = << >>,
              !.nodes = << >>,
              !.timers = Clear(Clear(@, e.sequencerTimer), e.riTimeout),
              !.sequencerTimer = 0,
              !.riTimeout = 0,
              !.fadeOutAge = -1]

\* cleanup(): stop and disconnect everything, clear both timers, clear the flag
cleanup(e) ==
    [e EXCEPT !.sources = << >>,
              !.nodes = << >>,
              !.timers = Clear(Clear(@, e.sequencerTimer), e.riTimeout),
              !.sequencerTimer = 0,
              !.riTimeout = 0,
              !.playing = FALSE,
              !.fadeOutAge = -1]

\* the timeout is due FADE_OUT_SEC after the call, without the 60 ms margin
StopTimerNoMargin(cont) ==
    [kind |-> "stop", rem |-> FADE_OUT_MS \div SlotMs, id |-> 0, cont |-> cont, cur |-> -1,
     owner |-> 0, tempo |-> 0, dead |-> FALSE, age |-> 0, old |-> FALSE]

\* stop()'s timeout, FADE_OUT_SEC * 1000 + 60 ms ahead; age: slots since the call;
\* old: a play* has built a graph since the call
StopTimer(cont) ==
    [kind |-> "stop", rem |-> StopDelay, id |-> 0, cont |-> cont, cur |-> -1,
     owner |-> 0, tempo |-> 0, dead |-> FALSE, age |-> 0, old |-> FALSE]

\* the timeouts and intervals pending at an invocation of stop() are marked
MarkDead(ts) ==
    [i \in DOMAIN ts |->
        IF ts[i].kind \in {"ri", "seq"} THEN [ts[i] EXCEPT !.dead = TRUE] ELSE ts[i]]

Enqueue(q, cont) == IF cont.k = "none" THEN q ELSE Append(q, cont)

\* no idle path: the fade-out and the timeout whatever the engine does
stopAlwaysDelays(e, cont) ==
    LET e0 == [e EXCEPT !.timers = MarkDead(@)]
        e1 == IF e0.masterGain.id # 0 /\ e0.ctx # 0
              THEN [e0 EXCEPT !.masterGain.target = 0,
                              !.masterGain.by = "fadeOut",
                              !.fadeOutAge = IF @ = -1 THEN 0 ELSE @]
              ELSE e0
    IN  [e1 EXCEPT !.timers = Append(@, StopTimer(cont))]

\* the promise resolves at once: no delay, no cleanup
stopResolvesAtOnce(e, cont) ==
    LET e0 == [e EXCEPT !.timers = MarkDead(@)]
    IN  IF e0.masterGain.id # 0 /\ e0.ctx # 0
        THEN [e0 EXCEPT !.masterGain.target = 0, !.masterGain.by = "fadeOut",
                        !.mq = Enqueue(@, cont)]
        ELSE [e0 EXCEPT !.mq = Enqueue(@, cont)]

\* stop(), cont being what awaits the returned promise
stop(e, cont) ==
    LET e0 == [e EXCEPT !.timers = MarkDead(@)]
    IN  IF ~e0.playing /\ e0.sources = << >>
        THEN LET c == cleanup(e0)
             IN  [c EXCEPT !.mq = Enqueue(@, cont),
                           !.stopResolved = {[live |-> FALSE, after |-> 0]}]
        ELSE LET e1 == IF e0.masterGain.id # 0 /\ e0.ctx # 0
                       THEN [e0 EXCEPT !.masterGain.target = 0,
                                       !.masterGain.by = "fadeOut",
                                       !.fadeOutAge = IF @ = -1 THEN 0 ELSE @]
                       ELSE e0
             IN  [e1 EXCEPT !.timers = Append(@, StopTimer(cont))]

\* the cache is never consulted: every request generates a buffer
noiseBufRegenerates(e, color) ==
    [e EXCEPT !.noiseCache[color] = e.ctx,
              !.noiseUse[color].made = @ + 1,
              !.noiseUse[color].served = @ + 1]

\* noiseBuf(ctx, type): generate once, then serve from the cache.  A buffer is
\* filled from Math.random: the n-th buffer generated for a colour is a new
\* instance with its own content.
noiseBuf(e, color) ==
    LET c == IF e.noiseCache[color] # 0
             THEN e
             ELSE [e EXCEPT !.noiseCache[color] = e.ctx, !.noiseUse[color].made = @ + 1]
    IN  [c EXCEPT !.noiseUse[color].served = @ + 1]

\* the instance noiseBuf returned: the buffer last generated for the colour
Returned(e, color) == e.noiseUse[color].made

\* input: the input of the next node that the source's output is connected to
Osc(role, type, f, inv, sink) ==
    [kind |-> "osc", role |-> role, type |-> type, freq |-> f, owner |-> inv, sink |-> sink,
     buffer |-> 0, input |-> 0]

Buf(color, buffer, inv, sink) ==
    [kind |-> "buf", role |-> "noise", type |-> color, freq |-> 0, owner |-> inv, sink |-> sink,
     buffer |-> buffer, input |-> 0]

Biquad(type, f, q, inv) ==
    [kind |-> "biquad", type |-> type, freq |-> f, q |-> q, gain |-> 0, idx |-> 0, owner |-> inv,
     init |-> 0]

\* init: the value assigned to gain.value at creation; gain: the value last
\* programmed
Gain(type, g, idx, inv) ==
    [kind |-> "gain", type |-> type, freq |-> 0, q |-> 0, gain |-> g, idx |-> idx, owner |-> inv,
     init |-> g]

Merger(inv) ==
    [kind |-> "merger", type |-> "merger", freq |-> 0, q |-> 0, gain |-> 0, idx |-> 0, owner |-> inv,
     init |-> 0]

\* the smallest timer id in use neither by a pending timer nor by a handle
FreshId(e) ==
    LET used == {e.timers[i].id : i \in DOMAIN e.timers} \cup {e.sequencerTimer, e.riTimeout}
    IN  CHOOSE n \in 1..(Cardinality(used) + 1) :
            /\ n \notin used
            /\ \A m \in 1..(n - 1) : m \in used

\* the draw may repeat the current index
DrawAny(cur) == 0..3

\* do { next = Math.floor(Math.random() * 4) } while (next === cur): the
\* indices the loop can end with
Draw(cur) == (0..3) \ {cur}

\* one sequencer tick of the session `inv`, whose closure holds index cur;
\* next is the index drawn
\* the tone that sounded is not released
stepKeepsPrevious(e, inv, cur, next) ==
    IF ~e.playing
    THEN e
    ELSE [e EXCEPT !.nodes =
            [i \in DOMAIN @ |->
                IF @[i].owner = inv /\ @[i].type = "tone" /\ @[i].idx = next
                THEN [@[i] EXCEPT !.gain = CR_TONE_TARGET]
                ELSE @[i]]]

step(e, inv, cur, next) ==
    IF ~e.playing
    THEN e
    ELSE [e EXCEPT !.nodes =
            [i \in DOMAIN @ |->
                IF @[i].owner = inv /\ @[i].type = "tone"
                THEN IF @[i].idx = next THEN [@[i] EXCEPT !.gain = CR_TONE_TARGET]
                     ELSE IF @[i].idx = cur THEN [@[i] EXCEPT !.gain = 0]
                     ELSE @[i]
                ELSE @[i]]]

\* ---------------------------------------- play*: the code after `await stop()`
\* wire(source, ...intermediates) or x.connect(this.master()), and the pushes
\* to this.sources and this.nodes: the last node of the path is connected to
\* the gain that master() returns at that point
Push(e, srcs, nds) ==
    LET m == master(e)
    IN  [m EXCEPT !.sources = @ \o [i \in DOMAIN srcs |->
                                        [srcs[i] EXCEPT !.sink = m.masterGain.id]],
                  !.nodes = @ \o nds]

\* the fade-in is programmed before the playing flag is set
StartFadesFirst(e, target) == [fadeIn(e, target) EXCEPT !.playing = TRUE]

\* `this._playing = true; this.fadeIn(target)`
Start(e, target) == fadeIn([e EXCEPT !.playing = TRUE], target)

\* the frequency of the modulation oscillator, as playAM sets it
lfoFrequency(r) == r.a

playTone(e, r, inv) ==
    LET m == master(getCtx(e))
        osc == Osc("tone", r.wave, clampFreq(r.freq), inv, m.masterGain.id)
    IN  Start(Push(m, << osc >>, << >>), Scaled(m.vol, ScalarOr(r.wave, 100)))

\* `if (centerFreq)`: a centre frequency that is given and not 0
HasCenter(r) == r.given /\ r.freq # 0

playNoise(e, r, inv) ==
    LET m == noiseBuf(master(getCtx(e)), r.wave)
        src == Buf(r.wave, Returned(m, r.wave), inv, m.masterGain.id)
        bp == Biquad("bandpass", clampFreq(r.freq), r.a, inv)
    IN  Start(Push(m, << src >>, IF HasCenter(r) THEN << bp >> ELSE << >>),
              Scaled(m.vol, ScalarOr(r.wave, NOISE_DEFAULT_PCT)))

playNotchedNoise(e, r, inv) ==
    LET m == noiseBuf(master(getCtx(e)), r.wave)
        src == Buf(r.wave, Returned(m, r.wave), inv, m.masterGain.id)
        notch == Biquad("notch", clampFreq(r.freq), r.a, inv)
    IN  Start(Push(m, << src >>, << notch >>),
              Scaled(m.vol, ScalarOr(r.wave, NOISE_DEFAULT_PCT)))

\* ticked: the interval's callback has selected an index at least once
SeqTimer(id, tempo, cur, inv) ==
    [kind |-> "seq", rem |-> tempo, id |-> id, cont |-> NoCont, cur |-> cur,
     owner |-> inv, tempo |-> tempo, dead |-> FALSE, ticked |-> FALSE]

\* the first step() runs before the playing flag is set
playCoordinatedResetStepFirst(e, r, inv, next) ==
    LET m == master(getCtx(e))
        oscs == [i \in 1..4 |->
                    Osc("cr", "sine", clampFreq((r.freq * ratios[i]) \div 1000), inv,
                        m.masterGain.id)]
        gains == [i \in 1..4 |-> Gain("tone", 0, i - 1, inv)]
        w1 == Push(m, << oscs[1] >>, << gains[1] >>)
        w2 == Push(w1, << oscs[2] >>, << gains[2] >>)
        w3 == Push(w2, << oscs[3] >>, << gains[3] >>)
        w4 == Push(w3, << oscs[4] >>, << gains[4] >>)
        t == step(w4, inv, -1, next)
        s == Start(t, m.vol)
        id == FreshId(s)
    IN  [s EXCEPT !.sequencerTimer = id,
                  !.timers = Append(@, SeqTimer(id, r.a, IF w4.playing THEN next ELSE -1, inv))]

\* next: the index the first tick draws
playCoordinatedReset(e, r, inv, next) ==
    LET m == master(getCtx(e))
        oscs == [i \in 1..4 |->
                    Osc("cr", "sine", clampFreq((r.freq * ratios[i]) \div 1000), inv,
                        m.masterGain.id)]
        gains == [i \in 1..4 |-> Gain("tone", 0, i - 1, inv)]
        w1 == Push(m, << oscs[1] >>, << gains[1] >>)
        w2 == Push(w1, << oscs[2] >>, << gains[2] >>)
        w3 == Push(w2, << oscs[3] >>, << gains[3] >>)
        w4 == Push(w3, << oscs[4] >>, << gains[4] >>)
        s == Start(w4, m.vol)
        t == step(s, inv, -1, next)
        id == FreshId(t)
    IN  [t EXCEPT !.sequencerTimer = id,
                  !.timers = Append(@, SeqTimer(id, r.a, next, inv))]

\* the modulation swing is the whole depth
playAMFullSwing(e, r, inv) ==
    LET m == master(getCtx(e))
        carrier == Osc("carrier", "sine", clampFreq(r.freq), inv, m.masterGain.id)
        lfo == Osc("lfo", "sine", lfoFrequency(r), inv, m.masterGain.id)
        lfoGain == Gain("lfoGain", r.b, 0, inv)
        out == Gain("out", UNITY - r.b \div 2, 0, inv)
    IN  Start(Push(m, << carrier, lfo >>, << lfoGain, out >>), m.vol)

\* the output stage's base gain with the sign of the depth term flipped
playAMSignFlipped(e, r, inv) ==
    LET m == master(getCtx(e))
        carrier == Osc("carrier", "sine", clampFreq(r.freq), inv, m.masterGain.id)
        lfo == Osc("lfo", "sine", lfoFrequency(r), inv, m.masterGain.id)
        lfoGain == Gain("lfoGain", r.b \div 2, 0, inv)
        out == Gain("out", UNITY + r.b \div 2, 0, inv)
    IN  Start(Push(m, << carrier, lfo >>, << lfoGain, out >>), m.vol)

playAM(e, r, inv) ==
    LET m == master(getCtx(e))
        carrier == Osc("carrier", "sine", clampFreq(r.freq), inv, m.masterGain.id)
        lfo == Osc("lfo", "sine", lfoFrequency(r), inv, m.masterGain.id)
        lfoGain == Gain("lfoGain", r.b \div 2, 0, inv)
        out == Gain("out", UNITY - r.b \div 2, 0, inv)
    IN  Start(Push(m, << carrier, lfo >>, << lfoGain, out >>), m.vol)

\* the beat is added after the clamp
playBinauralBeatAfterClamp(e, r, inv) ==
    LET m == master(getCtx(e))
        left == [Osc("left", "sine", clampFreq(r.freq), inv, m.masterGain.id)
                    EXCEPT !.input = 0]
        right == [Osc("right", "sine", clampFreq(r.freq) + r.a, inv, m.masterGain.id)
                    EXCEPT !.input = 1]
    IN  Start(Push(m, << left, right >>, << Merger(inv) >>), m.vol)

\* left.connect(merger, 0, 0); right.connect(merger, 0, 1)
playBinaural(e, r, inv) ==
    LET m == master(getCtx(e))
        left == [Osc("left", "sine", clampFreq(r.freq), inv, m.masterGain.id)
                    EXCEPT !.input = 0]
        right == [Osc("right", "sine", clampFreq(r.freq + r.a), inv, m.masterGain.id)
                    EXCEPT !.input = 1]
    IN  Start(Push(m, << left, right >>, << Merger(inv) >>), m.vol)

playPhaseCancellation(e, r, inv) ==
    LET m == master(getCtx(e))
        osc == Osc("osc", "sine", clampFreq(r.freq), inv, m.masterGain.id)
        invert == Gain("invert", -UNITY, 0, inv)
    IN  Start(Push(m, << osc >>, << invert >>), m.vol)

\* playResidualInhibition: playTone(freq, 'sine'), whose completion queues the
\* continuation that arms the timeout
playResidualInhibition(e, rid, inv) ==
    LET t == playTone(e, [Requests[rid] EXCEPT !.wave = "sine"], inv)
    IN  [t EXCEPT !.mq = Append(@, [k |-> "riArm", req |-> rid, inv |-> inv])]

\* the auto-stop timeout of invocation inv
RiTimer(id, d, inv) ==
    [kind |-> "ri", rem |-> d, id |-> id, cont |-> NoCont, cur |-> -1,
     owner |-> inv, tempo |-> 0, dead |-> FALSE]

Body(e, rid, inv, next) ==
    LET r == Requests[rid] IN
    CASE r.op = "tone" -> playTone(e, r, inv)
      [] r.op = "noise" -> playNoise(e, r, inv)
      [] r.op = "notch" -> playNotchedNoise(e, r, inv)
      [] r.op = "cr" -> playCoordinatedReset(e, r, inv, next)
      [] r.op = "am" -> playAM(e, r, inv)
      [] r.op = "binaural" -> playBinaural(e, r, inv)
      [] r.op = "ri" -> playResidualInhibition(e, rid, inv)
      [] r.op = "phase" -> playPhaseCancellation(e, r, inv)

\* updateOscFrequency(freq)
updateOscFrequency(e, f) ==
    IF e.ctx = 0
    THEN e
    ELSE [e EXCEPT !.sources =
            [i \in DOMAIN @ |->
                IF @[i].kind = "osc" THEN [@[i] EXCEPT !.freq = clampFreq(f)] ELSE @[i]]]

\* updateFilterFrequency(freq)
updateFilterFrequency(e, f) ==
    IF e.ctx = 0
    THEN e
    ELSE [e EXCEPT !.nodes =
            [i \in DOMAIN @ |->
                IF @[i].kind = "biquad" THEN [@[i] EXCEPT !.freq = clampFreq(f)] ELSE @[i]]]

\* the release is due after FADE_OUT_SEC, before the timeout of stop()
DestroyTimerEarly(inv) ==
    [kind |-> "destroy", rem |-> FADE_OUT_MS \div SlotMs, id |-> 0, cont |-> NoCont, cur |-> -1,
     owner |-> inv, tempo |-> 0, dead |-> FALSE]

\* destroy()'s timeout, 300 ms ahead; owner: the number of the destroy() call
DestroyTimer(inv) ==
    [kind |-> "destroy", rem |-> DestroyDelay, id |-> 0, cont |-> NoCont, cur |-> -1,
     owner |-> inv, tempo |-> 0, dead |-> FALSE]

\* destroy(): stop(), and after 300 ms close the context and drop the chain;
\* nothing awaits the promise of this stop(), inv names the call
destroy(e, inv) ==
    LET s == stop(e, [NoCont EXCEPT !.inv = inv])
    IN  [s EXCEPT !.timers = Append(@, DestroyTimer(inv))]

\* the callback of destroy's timeout
release(e) ==
    [e EXCEPT !.ctx = 0, !.masterGain = NoGain, !.limiter = 0, !.analyser = 0]

\* ------------------------------------------------------------------ actions
\* caller code may run as a new task, or as the rest of the running one
CallerCanRun == ncalls < MaxCalls /\ (mq = << >> \/ inCaller)

\* a promise returned to the caller is not settled yet: the continuation of a
\* play* or of an awaited stop() has still to run
PendingCall ==
    \/ \E i \in DOMAIN mq : mq[i].k \in {"play", "caller", "riArm"}
    \/ \E i \in DOMAIN timers : timers[i].cont.k \in {"play", "caller"}

Called(isSoloRI) ==
    /\ ncalls' = ncalls + 1
    /\ inCaller' = (mq' # << >>)
    /\ solo' = isSoloRI
    /\ volArg' = volArg
    /\ awaited' = (awaited /\ ~PendingCall)

CalledSetVolume(v) ==
    /\ ncalls' = ncalls + 1
    /\ inCaller' = (mq' # << >>)
    /\ solo' = FALSE
    /\ volArg' = {v}
    /\ awaited' = (awaited /\ ~PendingCall)

\* a play* call up to its `await this.stop()`
CallPlay(rid) ==
    /\ CallerCanRun
    /\ Commit(stop(Cur, [k |-> "play", req |-> rid, inv |-> ncalls + 1]))
    /\ Called(ncalls = 0 /\ Requests[rid].op = "ri")

\* stop(), awaited by the caller
CallStop ==
    /\ CallerCanRun
    /\ Commit(stop(Cur, [k |-> "caller", req |-> 0, inv |-> ncalls + 1]))
    /\ Called(FALSE)

CallSetVolume(v) ==
    /\ CallerCanRun
    /\ Commit(setVolume(Cur, v))
    /\ CalledSetVolume(v)

CallUpdateOscFrequency(f) ==
    /\ CallerCanRun
    /\ Commit(updateOscFrequency(Cur, f))
    /\ Called(FALSE)

CallUpdateFilterFrequency(f) ==
    /\ CallerCanRun
    /\ Commit(updateFilterFrequency(Cur, f))
    /\ Called(FALSE)

CallDestroy ==
    /\ CallerCanRun
    /\ Commit([destroy(Cur, ncalls + 1) EXCEPT !.destroyed = ncalls + 1])
    /\ Called(FALSE)

Popped == [Cur EXCEPT !.mq = Tail(mq)]

\* fully torn down: nothing live, flag clear, no interval or auto-stop pending
TornDown(e) ==
    /\ ~e.playing
    /\ e.sources = << >>
    /\ e.nodes = << >>
    /\ \A i \in DOMAIN e.timers : e.timers[i].kind \notin {"seq", "ri"}

\* the pending timeouts of stop() were registered before the graph now built
MarkOld(ts) ==
    [i \in DOMAIN ts |-> IF ts[i].kind = "stop" THEN [ts[i] EXCEPT !.old = TRUE] ELSE ts[i]]

\* the engine as a play* finds it when its awaited stop() has resolved
Resumed == [Popped EXCEPT !.buildSeen = IF TornDown(Popped) THEN "clean" ELSE "dirty",
                          !.timers = MarkOld(@)]

\* the continuation of a play* after its awaited stop() resolved
RunPlay ==
    /\ mq # << >>
    /\ Head(mq).k = "play"
    /\ \E next \in Draw(-1) : Commit(Body(Resumed, Head(mq).req, Head(mq).inv, next))
    /\ inCaller' = FALSE
    /\ UNCHANGED << ncalls, solo, volArg, awaited >>

\* playResidualInhibition after its awaited playTone: arm the auto-stop
RunRiArm ==
    /\ mq # << >>
    /\ Head(mq).k = "riArm"
    /\ LET id == FreshId(Popped)
       IN  Commit([Popped EXCEPT !.riTimeout = id,
                                 !.timers = Append(@, RiTimer(id, Requests[Head(mq).req].a,
                                                             Head(mq).inv))])
    /\ inCaller' = FALSE
    /\ UNCHANGED << ncalls, solo, volArg, awaited >>

\* the caller's continuation of an awaited stop()
RunCaller ==
    /\ mq # << >>
    /\ Head(mq).k = "caller"
    /\ Commit([Popped EXCEPT !.stopSeen = IF TornDown(Popped) THEN "clean" ELSE "dirty"])
    /\ inCaller' = (Tail(mq) # << >>)
    /\ UNCHANGED << ncalls, solo, volArg, awaited >>

\* the auto-stop callback after its awaited stop(): onFinish?.()
RunRiFinish ==
    /\ mq # << >>
    /\ Head(mq).k = "riFinish"
    /\ Commit([Popped EXCEPT !.finished = @ + 1])
    /\ inCaller' = FALSE
    /\ UNCHANGED << ncalls, solo, volArg, awaited >>

\* the timer whose callback runs next: the first one that is due
Due(i) ==
    /\ mq = << >>
    /\ i \in DOMAIN timers
    /\ timers[i].rem = 0
    /\ \A j \in 1..(i - 1) : timers[j].rem # 0

Without(i) == [Cur EXCEPT !.timers = SelectSeq([j \in DOMAIN timers |-> [timers[j] EXCEPT !.rem = IF j = i THEN -1 ELSE @]], LAMBDA t : t.rem # -1)]

\* stop()'s timeout: cleanup(); resolve()
FireStop ==
    \E i \in DOMAIN timers :
        /\ Due(i)
        /\ timers[i].kind = "stop"
        /\ LET c == cleanup(Without(i))
           IN  Commit([c EXCEPT !.mq = Enqueue(@, timers[i].cont),
                                !.stopResolved = {[live |-> TRUE, after |-> timers[i].age]}])
        /\ inCaller' = FALSE
        /\ UNCHANGED << ncalls, solo, volArg, awaited >>

\* the auto-stop timeout: `await this.stop()`, then onFinish
FireRi ==
    \E i \in DOMAIN timers :
        /\ Due(i)
        /\ timers[i].kind = "ri"
        /\ LET s == stop(Without(i), [k |-> "riFinish", req |-> 0, inv |-> timers[i].owner])
           IN  Commit([s EXCEPT !.firedDead = @ \/ timers[i].dead])
        /\ inCaller' = FALSE
        /\ UNCHANGED << ncalls, solo, volArg, awaited >>

\* the sequencer interval: step(), and the interval is due again after tempo
FireSeq ==
    \E i \in DOMAIN timers :
        /\ Due(i)
        /\ timers[i].kind = "seq"
        /\ \E next \in Draw(timers[i].cur) :
            LET t == timers[i]
                w == Without(i)
                s == step(w, t.owner, t.cur, next)
                again == [t EXCEPT !.rem = t.tempo,
                                   !.cur = IF w.playing THEN next ELSE @,
                                   !.ticked = @ \/ w.playing]
            IN  Commit([s EXCEPT !.timers = Append(@, again),
                                 !.firedDead = @ \/ (t.dead /\ w.playing)])
        /\ inCaller' = FALSE
        /\ UNCHANGED << ncalls, solo, volArg, awaited >>

\* destroy()'s timeout
FireDestroy ==
    \E i \in DOMAIN timers :
        /\ Due(i)
        /\ timers[i].kind = "destroy"
        /\ Commit(release(Without(i)))
        /\ inCaller' = FALSE
        /\ UNCHANGED << ncalls, solo, volArg, awaited >>

\* 60 ms pass: no continuation is queued and no timer is due
Advance ==
    /\ mq = << >>
    /\ timers # << >>
    /\ \A i \in DOMAIN timers : timers[i].rem > 0
    /\ Commit([Cur EXCEPT !.timers = [i \in DOMAIN @ |->
                                         IF @[i].kind = "stop"
                                         THEN [@[i] EXCEPT !.rem = @ - 1, !.age = @ + 1]
                                         ELSE [@[i] EXCEPT !.rem = @ - 1]],
                          !.fadeOutAge = IF @ >= 0 /\ @ < StopDelay THEN @ + 1 ELSE @])
    /\ inCaller' = FALSE
    /\ UNCHANGED << ncalls, solo, volArg, awaited >>

Next ==
    \/ \E rid \in ReqIds : CallPlay(rid)
    \/ CallStop
    \/ \E v \in Volumes : CallSetVolume(v)
    \/ \E f \in UpdateFreqs : CallUpdateOscFrequency(f)
    \/ \E f \in UpdateFreqs : CallUpdateFilterFrequency(f)
    \/ CallDestroy
    \/ RunPlay
    \/ RunRiArm
    \/ RunCaller
    \/ RunRiFinish
    \/ FireStop
    \/ FireRi
    \/ FireSeq
    \/ FireDestroy
    \/ Advance

Spec == Init /\ [][Next]_vars

\* once a timer is registered the event loop serves it: time passes, a due
\* timer's callback runs, and the continuation of the auto-stop's awaited
\* stop() runs
LiveSpec ==
    /\ Init
    /\ [][Next]_vars
    /\ WF_vars(Advance)
    /\ WF_vars(FireStop)
    /\ WF_vars(FireRi)
    /\ WF_vars(RunRiFinish)

\* ------------------------------------------- a caller that uses the sequencer
\* the requests of this caller: coordinated reset, and a tone
SeqRequests == {6, 1}

SeqCallerCanRun == ncalls < MaxSeqCalls /\ (mq = << >> \/ inCaller)

\* a play* call up to its `await this.stop()`
SeqCallPlay(rid) ==
    /\ SeqCallerCanRun
    /\ Commit(stop(Cur, [k |-> "play", req |-> rid, inv |-> ncalls + 1]))
    /\ Called(FALSE)

\* stop(), awaited by the caller
SeqCallStop ==
    /\ SeqCallerCanRun
    /\ Commit(stop(Cur, [k |-> "caller", req |-> 0, inv |-> ncalls + 1]))
    /\ Called(FALSE)

SeqNext ==
    \/ \E rid \in SeqRequests : SeqCallPlay(rid)
    \/ SeqCallStop
    \/ RunPlay
    \/ RunCaller
    \/ FireStop
    \/ FireSeq
    \/ Advance

SeqSpec == Init /\ [][SeqNext]_vars

\* ------------------------------------ a caller that uses residual inhibition
\* the request of this caller: a session of 300 ms
RiRequests == {Len(Requests)}

RiCallerCanRun == ncalls < MaxRiCalls /\ (mq = << >> \/ inCaller)

\* playResidualInhibition up to the `await this.stop()` of its playTone
RiCallPlay(rid) ==
    /\ RiCallerCanRun
    /\ Commit(stop(Cur, [k |-> "play", req |-> rid, inv |-> ncalls + 1]))
    /\ Called(FALSE)

\* stop(), awaited by the caller
RiCallStop ==
    /\ RiCallerCanRun
    /\ Commit(stop(Cur, [k |-> "caller", req |-> 0, inv |-> ncalls + 1]))
    /\ Called(FALSE)

RiNext ==
    \/ \E rid \in RiRequests : RiCallPlay(rid)
    \/ RiCallStop
    \/ RunPlay
    \/ RunRiArm
    \/ RunCaller
    \/ RunRiFinish
    \/ FireStop
    \/ FireRi
    \/ Advance

RiSpec == Init /\ [][RiNext]_vars

\* ------------------------------------------ a caller that destroys the engine
\* the requests of this caller: a tone, and white noise
DestroyRequests == {1, 3}

DestroyCallerCanRun == ncalls < MaxDestroyCalls /\ (mq = << >> \/ inCaller)

\* a play* call up to its `await this.stop()`
DestroyCallPlay(rid) ==
    /\ DestroyCallerCanRun
    /\ Commit(stop(Cur, [k |-> "play", req |-> rid, inv |-> ncalls + 1]))
    /\ Called(FALSE)

DestroyCallUpdateOscFrequency(f) ==
    /\ DestroyCallerCanRun
    /\ Commit(updateOscFrequency(Cur, f))
    /\ Called(FALSE)

DestroyCallDestroy ==
    /\ DestroyCallerCanRun
    /\ Commit([destroy(Cur, ncalls + 1) EXCEPT !.destroyed = ncalls + 1])
    /\ Called(FALSE)

DestroyNext ==
    \/ \E rid \in DestroyRequests : DestroyCallPlay(rid)
    \/ \E f \in UpdateFreqs : DestroyCallUpdateOscFrequency(f)
    \/ DestroyCallDestroy
    \/ RunPlay
    \/ FireStop
    \/ FireDestroy
    \/ Advance

DestroySpec == Init /\ [][DestroyNext]_vars

\* ------------------------------------ a caller that uses amplitude modulation
\* modulation depths, x 0.0001: below 0, the ends and the inside of [0, 1], an
\* odd value, above 1
Depths == {-2000, 0, 1, 2500, 7000, 7001, 10000, 15000}

\* playAM(1000, 10, d)
AmRequest(d) == [op |-> "am", freq |-> 1000, wave |-> "sine", given |-> TRUE, a |-> 10, b |-> d]

AmCallerCanRun == ncalls < MaxAmCalls /\ (mq = << >> \/ inCaller)

\* playAM up to its `await this.stop()`; the continuation carries the depth
AmCallPlay(d) ==
    /\ AmCallerCanRun
    /\ Commit(stop(Cur, [k |-> "playAM", req |-> d, inv |-> ncalls + 1]))
    /\ Called(FALSE)

\* the continuation of playAM after its awaited stop() resolved
AmRunPlay ==
    /\ mq # << >>
    /\ Head(mq).k = "playAM"
    /\ Commit(playAM(Resumed, AmRequest(Head(mq).req), Head(mq).inv))
    /\ inCaller' = FALSE
    /\ UNCHANGED << ncalls, solo, volArg, awaited >>

AmNext ==
    \/ \E d \in Depths : AmCallPlay(d)
    \/ AmRunPlay
    \/ FireStop
    \/ Advance

AmSpec == Init /\ [][AmNext]_vars

\* ------------------------------------- the sequencer's tick, draw by draw
\* the loop's test with the comparison negated
RejectedWhenDifferent(n, cur) == n # cur

\* `while (next === cur)`
Rejected(n, cur) == n = cur

\* step() is entered: it returns at once when the playing flag is clear
StepEnter(p) ==
    /\ loopPc = "idle"
    /\ loopTicks < MaxTicks
    /\ loopTicks' = loopTicks + 1
    /\ loopDraws' = 0
    /\ loopPc' = IF p THEN "draw" ELSE "idle"
    /\ UNCHANGED << loopCur, loopNext >>
    /\ UNCHANGED << engineVars, tunerVars, wizardVars >>

\* `next = Math.floor(Math.random() * 4)`
StepDraw(n) ==
    /\ loopPc = "draw"
    /\ loopNext' = n
    /\ loopDraws' = IF loopDraws < MaxDraws THEN loopDraws + 1 ELSE loopDraws
    /\ loopPc' = "test"
    /\ UNCHANGED << loopCur, loopTicks >>
    /\ UNCHANGED << engineVars, tunerVars, wizardVars >>

\* the loop's test, and `cur = next` when it falls through
StepTest ==
    /\ loopPc = "test"
    /\ IF Rejected(loopNext, loopCur)
       THEN loopPc' = "draw" /\ UNCHANGED loopCur
       ELSE loopPc' = "idle" /\ loopCur' = loopNext
    /\ UNCHANGED << loopNext, loopDraws, loopTicks >>
    /\ UNCHANGED << engineVars, tunerVars, wizardVars >>

\* a draw that the test will let through
StepDrawDifferent == \E n \in 0..3 : n # loopCur /\ StepDraw(n)

LoopNext ==
    \/ \E p \in BOOLEAN : StepEnter(p)
    \/ \E n \in 0..3 : StepDraw(n)
    \/ StepTest

LoopSpec == Init /\ [][LoopNext]_vars

\* Math.random is fair: a draw that can come up infinitely often does come up
LoopLiveSpec == LoopSpec /\ WF_vars(StepTest) /\ SF_vars(StepDrawDifferent)

\* ------------------------------------------- the frequency-matching Wizard
\* enum WizardStep
DISCLAIMER == 0
OCTAVE_BRACKET == 1
FINE_MATCH == 2
CONFIRM == 3

\* the reference button the user clicks, one of OCTAVE_REFS
RefFreq == 4000

\* playFreq's playTone(f, 'sine')
WizardTone == [op |-> "tone", freq |-> RefFreq, wave |-> "sine", given |-> TRUE, a |-> 0, b |-> 0]

canAdvance ==
    CASE wizStep = DISCLAIMER -> accepted
      [] wizStep = OCTAVE_BRACKET -> selectedRef # 0
      [] wizStep = FINE_MATCH -> TRUE
      [] wizStep = CONFIRM -> TRUE
      [] OTHER -> FALSE

\* a click is a task of its own: every promise continuation has run before it
WizCanClick == wizMounted /\ mq = << >> /\ ncalls < MaxWizCalls

\* the Wizard is mounted once; its volume effect runs audioEngine.setVolume(0.12)
WizMount ==
    /\ ~wizMounted
    /\ completedAt = {}
    /\ ncalls = 0
    /\ CommitEngine(setVolume(Cur, WIZARD_VOL))
    /\ CalledSetVolume(WIZARD_VOL)
    /\ wizMounted' = TRUE
    /\ UNCHANGED << wizStep, accepted, selectedRef, wizPlaying, prevPlayingRef, completedAt >>
    /\ UNCHANGED << tunerVars, loopVars >>

\* the disclaimer's checkbox
WizAccept ==
    /\ wizMounted
    /\ mq = << >>
    /\ wizStep = DISCLAIMER
    /\ accepted' = ~accepted
    /\ UNCHANGED << wizStep, selectedRef, wizPlaying, prevPlayingRef, wizMounted, completedAt >>
    /\ UNCHANGED << engineVars, tunerVars, loopVars >>

\* playFreq: setPlaying(true), then playTone up to its `await this.stop()`
WizPlayFreq ==
    /\ CommitEngine(stop(Cur, [k |-> "wizPlay", req |-> 0, inv |-> ncalls + 1]))
    /\ wizPlaying' = TRUE

\* a handler's `await stopSound()`: audioEngine.stop(), the rest of stopSound and
\* of the handler run when it resolves; st is the step the handler's closure holds
WizStopSound(kind, st) ==
    CommitEngine(stop(Cur, [k |-> kind, req |-> st, inv |-> ncalls + 1]))

WizToggleRef ==
    /\ WizCanClick
    /\ wizStep = OCTAVE_BRACKET
    /\ IF prevPlayingRef = RefFreq /\ wizPlaying
       THEN /\ WizStopSound("toggleRef", wizStep)
            /\ UNCHANGED wizardVars
       ELSE /\ WizPlayFreq
            /\ selectedRef' = RefFreq
            /\ prevPlayingRef' = RefFreq
            /\ UNCHANGED << wizStep, accepted, wizMounted, completedAt >>
    /\ Called(FALSE)
    /\ UNCHANGED << tunerVars, loopVars >>

WizToggleFine ==
    /\ WizCanClick
    /\ wizStep = FINE_MATCH
    /\ IF wizPlaying
       THEN /\ WizStopSound("toggleFine", wizStep)
            /\ UNCHANGED wizardVars
       ELSE /\ WizPlayFreq
            /\ UNCHANGED << wizStep, accepted, selectedRef, prevPlayingRef, wizMounted,
                            completedAt >>
    /\ Called(FALSE)
    /\ UNCHANGED << tunerVars, loopVars >>

\* the confirm step's "Play to verify" button
WizPlayToVerify ==
    /\ WizCanClick
    /\ wizStep = CONFIRM
    /\ WizPlayFreq
    /\ UNCHANGED << wizStep, accepted, selectedRef, prevPlayingRef, wizMounted, completedAt >>
    /\ Called(FALSE)
    /\ UNCHANGED << tunerVars, loopVars >>

\* goNext up to its `await stopSound()`
WizGoNext ==
    /\ WizCanClick
    /\ canAdvance
    /\ WizStopSound("goNext", wizStep)
    /\ Called(FALSE)
    /\ UNCHANGED << wizardVars, tunerVars, loopVars >>

\* goBack up to its `await stopSound()`; the button is rendered after the first step
WizGoBack ==
    /\ WizCanClick
    /\ wizStep > DISCLAIMER
    /\ WizStopSound("goBack", wizStep)
    /\ Called(FALSE)
    /\ UNCHANGED << wizardVars, tunerVars, loopVars >>

\* the continuation of playTone after its awaited stop() resolved
WizRunPlay ==
    /\ mq # << >>
    /\ Head(mq).k = "wizPlay"
    /\ Commit(playTone(Resumed, WizardTone, Head(mq).inv))
    /\ inCaller' = FALSE
    /\ UNCHANGED << ncalls, solo, volArg, awaited >>

\* the rest of stopSound and of the handler that awaited it. State setters of
\* an unmounted component do nothing. onComplete switches the view: the Wizard
\* unmounts and its cleanup effect runs audioEngine.stop().
WizRun ==
    /\ mq # << >>
    /\ Head(mq).k \in {"goNext", "goBack", "toggleRef", "toggleFine"}
    /\ LET c == Head(mq)
           completes == c.k = "goNext" /\ c.req = CONFIRM
       IN  /\ CommitEngine(IF completes /\ wizMounted
                           THEN stop(Popped, [NoCont EXCEPT !.inv = ncalls + 1])
                           ELSE Popped)
           /\ completedAt' = IF completes THEN completedAt \cup {wizStep} ELSE completedAt
           /\ wizMounted' = (wizMounted /\ ~completes)
           /\ prevPlayingRef' = 0
           /\ wizPlaying' = IF wizMounted THEN FALSE ELSE wizPlaying
           /\ selectedRef' = IF wizMounted /\ c.k = "toggleRef" THEN 0 ELSE selectedRef
           /\ wizStep' = CASE wizMounted /\ c.k = "goNext" /\ ~completes -> wizStep + 1
                            [] wizMounted /\ c.k = "goBack" ->
                                 IF wizStep - 1 > 0 THEN wizStep - 1 ELSE 0
                            [] OTHER -> wizStep
    /\ inCaller' = FALSE
    /\ UNCHANGED << ncalls, solo, volArg, awaited, accepted >>
    /\ UNCHANGED << tunerVars, loopVars >>

WizardNext ==
    \/ WizMount
    \/ WizAccept
    \/ WizToggleRef
    \/ WizToggleFine
    \/ WizPlayToVerify
    \/ WizGoNext
    \/ WizGoBack
    \/ WizRunPlay
    \/ WizRun
    \/ FireStop
    \/ Advance

WizardSpec == Init /\ [][WizardNext]_vars

\* ---------------------------------------------------- Advanced Mode (Tuner)
\* the Tuner's per-waveform scalars, in percent
WAVE_GAIN_SCALARS(w) ==
    CASE w = "sine" -> 100
      [] w = "square" -> 15
      [] w = "sawtooth" -> 20
      [] w = "triangle" -> 50
      [] w = "white" -> 15
      [] w = "pink" -> 50
      [] w = "brown" -> 100

WAVE_OPTIONS == {"sine", "square", "sawtooth", "triangle", "white", "pink", "brown"}

\* positions of the volume slider (min 0, max 1, step 0.01), x 0.0001
TunerVolumes == {0, 1000, 2500, 4500, 4600, 10000}

\* the Tuner's effective volume is the bare product
effectiveVol(v, w) == Scaled(v, WAVE_GAIN_SCALARS(w))

\* the effect on [volume, waveType]: programs the gain of the node the ref holds
volumeEffect(v, w, ref) == IF ref # -1 THEN effectiveVol(v, w) ELSE ref

\* the volume slider's onChange, and the effect it triggers
TunerSetVolume ==
    /\ \E v \in TunerVolumes \ {tunerVolume} :
         /\ tunerVolume' = v
         /\ masterGainRef' = volumeEffect(v, waveType, masterGainRef)
    /\ UNCHANGED << waveType, isPlaying, isPhaseInverted, sourceRef, phaseGainRef >>
    /\ UNCHANGED << engineVars, loopVars, wizardVars >>

\* initAudio: builds a graph when no source is held
TunerInitAudio ==
    /\ sourceRef' = TRUE
    /\ IF ~sourceRef
         THEN /\ masterGainRef' = effectiveVol(tunerVolume, waveType)
              /\ phaseGainRef' = IF isPhaseInverted THEN -1 ELSE 1
         ELSE UNCHANGED << masterGainRef, phaseGainRef >>

\* togglePlay: stopAudio when playing, initAudio otherwise
TunerTogglePlay ==
    /\ IF isPlaying
         THEN /\ sourceRef' = FALSE
              /\ UNCHANGED << masterGainRef, phaseGainRef >>
         ELSE TunerInitAudio
    /\ isPlaying' = ~isPlaying
    /\ UNCHANGED << tunerVolume, waveType, isPhaseInverted >>
    /\ UNCHANGED << engineVars, loopVars, wizardVars >>

\* a waveform button: the effect on [volume, waveType] runs, then the effect
\* on [waveType] restarts the audio when playing (stopAudio, then initAudio
\* builds a new master gain)
TunerSetWaveType ==
    /\ \E w \in WAVE_OPTIONS \ {waveType} :
         /\ waveType' = w
         /\ masterGainRef' = IF isPlaying THEN effectiveVol(tunerVolume, w)
                                          ELSE volumeEffect(tunerVolume, w, masterGainRef)
    /\ phaseGainRef' = IF isPlaying THEN (IF isPhaseInverted THEN -1 ELSE 1) ELSE phaseGainRef
    /\ UNCHANGED << tunerVolume, isPlaying, isPhaseInverted, sourceRef >>
    /\ UNCHANGED << engineVars, loopVars, wizardVars >>

\* the phase switch, and the effect on [isPhaseInverted]
TunerTogglePhase ==
    /\ isPhaseInverted' = ~isPhaseInverted
    /\ phaseGainRef' = IF phaseGainRef # 0 THEN (IF isPhaseInverted THEN 1 ELSE -1) ELSE 0
    /\ UNCHANGED << tunerVolume, waveType, isPlaying, sourceRef, masterGainRef >>
    /\ UNCHANGED << engineVars, loopVars, wizardVars >>

TunerNext ==
    \/ TunerSetVolume
    \/ TunerTogglePlay
    \/ TunerSetWaveType
    \/ TunerTogglePhase

TunerSpec == Init /\ [][TunerNext]_vars

\* ------------------------------------------------------------------- claims
InGainRange(g) == 0 <= g /\ g <= MAX_SAFE_GAIN
InFreqRange(f) == MIN_FREQ <= f /\ f <= MAX_FREQ
GainNodes == {i \in DOMAIN nodes : nodes[i].kind = "gain"}
Oscillators == {i \in DOMAIN sources : sources[i].kind = "osc"}
Filters == {i \in DOMAIN nodes : nodes[i].kind = "biquad"}
OneSession == \A i, j \in DOMAIN sources : sources[i].owner = sources[j].owner

\* C1: every value programmed into the master gain (initial value, fade-in
\* floor and target, setVolume target, fade-out target) lies in [0, 0.45].
C1_MasterGainWithinCap ==
    /\ InGainRange(masterGain.value)
    /\ InGainRange(masterGain.target)

\* setVolume with an argument above the cap has programmed the master gain
C1_Witness ==
    /\ masterGain.by = "setVolume"
    /\ volArg = {9000}
    /\ masterGain.target = MAX_SAFE_GAIN

\* C2 as stated: no gain node of the signal graph, master or not, is ever
\* programmed above MAX_SAFE_GAIN.
C2_EveryGainWithinCap ==
    /\ masterGain.value <= MAX_SAFE_GAIN
    /\ masterGain.target <= MAX_SAFE_GAIN
    /\ \A i \in GainNodes : nodes[i].gain <= MAX_SAFE_GAIN

\* C2 amended: the cap binds the master gain; the stages in front of it are
\* programmed relative to unity: a coordinated-reset tone gain to 0 or 0.5,
\* the amplitude-modulation output and modulation gains to 1 - depth/2 and
\* depth/2 (both in [0, 1], their sum 1), the phase inverter to -1.
C2_StageGainsRelativeToUnity ==
    /\ masterGain.value <= MAX_SAFE_GAIN
    /\ masterGain.target <= MAX_SAFE_GAIN
    /\ \A i \in GainNodes :
        CASE nodes[i].type = "tone" -> nodes[i].gain \in {0, CR_TONE_TARGET}
          [] nodes[i].type = "invert" -> nodes[i].gain = -UNITY
          [] nodes[i].type = "lfoGain" ->
                /\ 0 <= nodes[i].gain /\ nodes[i].gain <= UNITY
                /\ i + 1 \in GainNodes
                /\ nodes[i + 1].type = "out"
                /\ nodes[i + 1].owner = nodes[i].owner
                /\ nodes[i].gain + nodes[i + 1].gain = UNITY
          [] nodes[i].type = "out" -> 0 <= nodes[i].gain /\ nodes[i].gain <= UNITY

\* a coordinated-reset tone is rising toward 0.5 while the master gain stays
\* within the cap
C2_Witness ==
    \E i \in GainNodes :
        /\ nodes[i].type = "tone"
        /\ nodes[i].gain = CR_TONE_TARGET
        /\ playing
        /\ masterGain.target <= MAX_SAFE_GAIN

\* the equalization the claims speak of: the table, 1.0 for unknown names
equalization(w) == IF w \in KnownWaves THEN GAIN_SCALAR(w) ELSE 100

\* C3 as stated: while a session of waveform or colour w plays, setVolume(v)
\* ramps the master gain toward clampGain(v) x equalization(w).
C3_SetVolumeKeepsEqualization ==
    (masterGain.by = "setVolume" /\ sources # << >> /\ OneSession)
        => \A v \in volArg :
              masterGain.target = Scaled(Min(Max(v, 0), MAX_SAFE_GAIN),
                                         equalization(sources[1].type))

\* C4 as stated: the sources of two different play* invocations are never
\* live together.
C4_OneGraphAtATime == OneSession

\* C5 as stated: a timeout or interval pending when stop() or a play* was
\* invoked never fires its callback afterwards.
C5_NoCallbackAfterStopInvoked == ~firedDead

\* C6 as stated: when the caller's continuation of stop() runs, the engine is
\* fully torn down.
C6_StopResolvesTornDown == stopSeen # "dirty"

\* C7 as stated: every live oscillator and every live filter has its frequency
\* in [20, 20000].
C7_EveryFrequencyInRange ==
    /\ \A i \in Oscillators : InFreqRange(sources[i].freq)
    /\ \A i \in Filters : InFreqRange(nodes[i].freq)

\* C7 amended (finite numeric inputs): every live oscillator other than the
\* amplitude-modulation low-frequency oscillator, and every live filter, has
\* its frequency in [20, 20000]; the low-frequency oscillator runs at the
\* modulation rate as given, unclamped, until updateOscFrequency sets it to a
\* clamped value.
C7_FrequenciesInRangeButLfo ==
    /\ \A i \in Oscillators :
          \/ InFreqRange(sources[i].freq)
          \/ /\ sources[i].role = "lfo"
             /\ \E rid \in ReqIds : Requests[rid].op = "am" /\ sources[i].freq = Requests[rid].a
    /\ \A i \in Filters : InFreqRange(nodes[i].freq)

\* an oscillator asked for above 20000 Hz runs at 20000 Hz, and a filter asked
\* for below 20 Hz is centred at 20 Hz
C7_Witness ==
    \/ \E i \in Oscillators : sources[i].freq = MAX_FREQ /\ playing
    \/ \E i \in Filters : nodes[i].freq = MIN_FREQ /\ playing

\* C8: after setVolume(v) the stored volume is min(max(v, 0), 0.45); it is
\* 0.12 before any setVolume; so it is always in [0, 0.45].
C8_StoredVolumeClamped ==
    /\ InGainRange(vol)
    /\ volArg = {} => vol = INITIAL_VOL
    /\ \A v \in volArg : vol = Min(Max(v, 0), MAX_SAFE_GAIN)

\* setVolume was called with a negative argument and stored 0
C8_Witness == volArg = {-500} /\ vol = 0

Idle == ~playing /\ sources = << >> /\ nodes = << >>
Quiet == mq = << >> /\ timers = << >>

\* playResidualInhibition has started: its timeout is armed, no other call made
RiStarted == solo /\ riTimeout # 0

\* C9: after playResidualInhibition has started, with no other call, the
\* engine stops by itself: it ends idle with no timer pending and onFinish
\* invoked exactly once (never more than once on the way, and not before the
\* engine is idle).
C9_AutoStopOnce ==
    /\ [](solo => finished <= 1)
    /\ [](solo /\ finished = 1 => Idle /\ Quiet)
    /\ [](solo /\ Quiet => finished = 1)
    /\ (RiStarted ~> (~solo \/ (finished = 1 /\ Idle /\ Quiet)))

\* the auto-stop has run to its end with no other call
C9_Witness == solo /\ finished = 1 /\ Idle /\ Quiet /\ riTimeout = 0

\* the lifecycle state of the spec: starting and playing are one state here,
\* the fade-in ramp completing by itself
Phase ==
    IF ~playing /\ sources = << >> THEN "idle"
    ELSE IF fadeOutAge >= 0 THEN "stopping"
    ELSE "playing"

\* C10 as stated: only idle -> starting/playing -> stopping -> idle, and a
\* live graph is torn down only FADE_OUT_SEC + 60 ms after the fade-out that
\* followed its fade-in.
C10_LifecycleOrder ==
    [][ /\ Phase = "idle" => Phase' \in {"idle", "playing"}
        /\ Phase = "playing" => Phase' \in {"playing", "stopping"}
        /\ Phase = "stopping" => Phase' \in {"stopping", "idle"}
        /\ (sources # << >> /\ sources' = << >>) => fadeOutAge = StopDelay ]_vars

\* C11: when every call is issued only after the previous call's promise has
\* settled, a play* begins to build its graph on an engine that is fully torn
\* down: no source, no node, the playing flag clear, no sequencer interval
\* and no auto-stop timeout pending.
C11_AwaitedPlayBuildsOnTornDown == awaited => buildSeen # "dirty"

\* after a noise session, started by an awaited call, a second awaited play*
\* has built an oscillator session on the torn-down engine
C11_Witness ==
    /\ awaited
    /\ ncalls = 2
    /\ buildSeen = "clean"
    /\ \E c \in Colors : noiseCache[c] # 0
    /\ sources # << >>
    /\ \A i \in DOMAIN sources : sources[i].kind = "osc" /\ sources[i].owner = 2

NoiseSources == {i \in DOMAIN sources : sources[i].kind = "buf"}

\* C12: for each noise colour at most one buffer is ever generated; once
\* generated it stays in the cache, and every request for the colour, from
\* playNoise or playNotchedNoise, before or after any stop or mode switch, is
\* served that one instance.
C12_NoiseBufferGeneratedOnce ==
    /\ \A c \in Colors :
          /\ noiseUse[c].made <= 1
          /\ noiseUse[c].served > 0 => (noiseUse[c].made = 1 /\ noiseCache[c] # 0)
          /\ noiseCache[c] # 0 => noiseCache[c] \in 1..ctxMade
    /\ \A i \in NoiseSources : sources[i].buffer = 1

\* a colour was requested twice, the second time by the session now live,
\* which plays the buffer generated for the first
C12_Witness ==
    \E i \in NoiseSources :
        /\ sources[i].owner = 2
        /\ noiseUse[sources[i].type].served = 2
        /\ noiseUse[sources[i].type].made = 1
        /\ sources[i].buffer = 1

Intervals == {i \in DOMAIN timers : timers[i].kind = "seq"}

\* in this step the callback of interval i ran while the engine was playing:
\* the interval is pending again, a whole tempo ahead
Ticks(i) ==
    /\ Due(i)
    /\ i \in Intervals
    /\ playing
    /\ timers' # << >>
    /\ LET t == timers'[Len(timers')]
       IN  t.kind = "seq" /\ t.id = timers[i].id /\ t.rem = t.tempo /\ t.ticked

\* C13: the index a sequencer tick selects is one of 0..3 and differs from
\* the index the previous tick of that session selected; the current index
\* of a running sequencer is never -1, the first tick running inside
\* playCoordinatedReset.
C13_TickSelectsAnotherIndex ==
    [][ /\ \A i \in Intervals : timers[i].cur \in 0..3
        /\ \A i \in DOMAIN timers :
              Ticks(i) => /\ timers'[Len(timers')].cur \in 0..3
                          /\ timers'[Len(timers')].cur # timers[i].cur ]_vars

\* the interval's callback has run in a playing session, after the first
\* tick made inside playCoordinatedReset
C13_Witness ==
    \E i \in Intervals :
        /\ timers[i].ticked
        /\ playing
        /\ \E j \in GainNodes :
              /\ nodes[j].owner = timers[i].owner
              /\ nodes[j].idx = timers[i].cur
              /\ nodes[j].gain = CR_TONE_TARGET

\* C14 as stated: every stop() promise resolves no earlier than FADE_OUT_SEC
\* and no later than FADE_OUT_SEC + 100 ms after the call.
C14_EveryStopResolvesInWindow ==
    \A r \in stopResolved :
        /\ r.after * SlotMs >= FADE_OUT_MS
        /\ r.after * SlotMs <= FADE_OUT_MS + 100

\* C14 amended: a stop() that finds a session live (the playing flag set or
\* a source live) resolves FADE_OUT_SEC + 60 ms after the call, which is
\* within the window; a stop() that finds the engine idle cleans up
\* synchronously and resolves at once.
C14_LiveStopResolvesInWindow ==
    \A r \in stopResolved :
        IF r.live
        THEN /\ r.after * SlotMs = FADE_OUT_MS + SlotMs
             /\ r.after * SlotMs >= FADE_OUT_MS
             /\ r.after * SlotMs <= FADE_OUT_MS + 100
        ELSE r.after = 0

\* a stop() awaited by the caller found a session live and has resolved
C14_Witness ==
    /\ stopResolved = {[live |-> TRUE, after |-> StopDelay]}
    /\ stopSeen = "clean"
    /\ ~playing

\* a play* called after destroy() is about to build its graph
LaterPlayResumes ==
    /\ destroyed # 0
    /\ mq # << >>
    /\ Head(mq).k = "play"
    /\ Head(mq).inv > destroyed

\* C15 as stated: once destroy() has been called the engine never goes back
\* to playing, and no audio context and no master-chain node is created.
C15_DestroyIsTerminal ==
    [][ LaterPlayResumes => /\ (playing' => playing)
                            /\ ctxMade' = ctxMade
                            /\ made' = made ]_vars

\* the source the last play* pushed
LastSource == sources[Len(sources)]

\* a playTone, playNoise or playNotchedNoise session is live and the master
\* gain still holds what its fade-in programmed
FadedIn ==
    /\ playing
    /\ sources # << >>
    /\ masterGain.by = "fadeIn"
    /\ LastSource.role \in {"tone", "noise"}

\* the table of the claim, in percent
ClaimedTable ==
    [sine |-> 100, square |-> 15, sawtooth |-> 20, triangle |-> 50,
     white |-> 15, pink |-> 50, brown |-> 100]

FadeTarget(pct) == Max(Min(Max((vol * pct) \div 100, 0), MAX_SAFE_GAIN), FADE_FLOOR)

\* C16 as stated: the scalar applied by playTone, playNoise and
\* playNotchedNoise is the table value for a known identifier and 1.0 for
\* any other.
C16_UnknownScalarIsUnity ==
    FadedIn =>
        masterGain.target =
            FadeTarget(IF LastSource.type \in DOMAIN ClaimedTable
                       THEN ClaimedTable[LastSource.type] ELSE 100)

\* C16 amended: the table value for a known identifier; for any other, 1.0
\* in playTone and 0.3 in playNoise and playNotchedNoise.
C16_UnknownScalarPerOperation ==
    FadedIn =>
        masterGain.target =
            FadeTarget(IF LastSource.type \in DOMAIN ClaimedTable
                       THEN ClaimedTable[LastSource.type]
                       ELSE IF LastSource.kind = "osc" THEN 100 ELSE 30)

\* playNoise of an unknown colour has faded in to 0.3 of a non-zero volume
C16_Witness ==
    /\ FadedIn
    /\ LastSource.type = "violet"
    /\ vol > 0
    /\ masterGain.target = (vol * 30) \div 100

\* C17: until destroy() is called the master chain is a singleton: the first
\* master() creates one context, one gain, one limiter and one analyser, no
\* later operation creates another or drops one, and every live source feeds
\* that one gain.
C17_MasterChainSingleton ==
    destroyed = 0 =>
        /\ ctxMade <= 1
        /\ ctx = ctxMade
        /\ made \in {0, 3}
        /\ << masterGain.id, limiter, analyser >> = IF made = 0 THEN << 0, 0, 0 >> ELSE << 1, 2, 3 >>
        /\ \A i \in DOMAIN sources : sources[i].sink = 1

\* a noise session was built and then an oscillator session, and the chain
\* still consists of the three nodes created for the first
C17_Witness ==
    /\ destroyed = 0
    /\ ncalls = 2
    /\ made = 3
    /\ masterGain.id = 1 /\ limiter = 2 /\ analyser = 3
    /\ playing
    /\ \E c \in Colors : noiseUse[c].served = 1
    /\ \E i \in DOMAIN sources : sources[i].owner = 2 /\ sources[i].kind = "osc"

\* the connections that leave the three nodes of the current chain
ChainEdges == {x \in edges : x[1] \in {masterGain.id, limiter, analyser}}

\* what feeds node n
Feeders(n) == {x[1] : x \in {y \in edges : y[2] = n}}

\* g is a master gain whose only output is a limiter whose only output is an
\* analyser whose only output is the destination
ThroughLimiter(g) ==
    /\ {x \in edges : x[1] = g} = { <<g, g + 1>> }
    /\ {x \in edges : x[1] = g + 1} = { <<g + 1, g + 2>> }
    /\ {x \in edges : x[1] = g + 2} = { <<g + 2, 0>> }
    /\ Feeders(g + 2) = {g + 1}
    /\ Feeders(g + 1) = {g}

\* C18: however often master() has run, the chain consists of exactly the
\* connections gain -> limiter, limiter -> analyser, analyser -> destination;
\* the destination is fed by analysers only, each fed by its limiter only;
\* and every live source is wired to a master gain, the current one while
\* there is one, whose output passes the limiter.
C18_ChainIdempotentAndSourcesBehindLimiter ==
    /\ masterGain.id # 0 =>
          /\ limiter = masterGain.id + 1 /\ analyser = masterGain.id + 2
          /\ ChainEdges = { <<masterGain.id, limiter>>, <<limiter, analyser>>,
                            <<analyser, 0>> }
    /\ \A a \in Feeders(0) : ThroughLimiter(a - 2)
    /\ \A i \in DOMAIN sources :
          /\ ThroughLimiter(sources[i].sink)
          /\ masterGain.id # 0 => sources[i].sink = masterGain.id

\* a coordinated-reset session, which calls master() five times, is live on
\* the chain a first session created, and the chain has its three connections
C18_Witness ==
    /\ Cardinality(edges) = 3
    /\ ncalls = 2
    /\ playing
    /\ Len(sources) = 4
    /\ \A i \in DOMAIN sources :
          sources[i].owner = 2 /\ sources[i].role = "cr" /\ sources[i].sink = masterGain.id
    /\ \E c \in Colors : noiseUse[c].served = 1

\* in this step a play* of operation op resumes from its awaited stop() and
\* builds its graph
Builds(op) ==
    /\ mq # << >>
    /\ Head(mq).k = "play"
    /\ Requests[Head(mq).req].op = op
    /\ mq' = Tail(mq)

\* the sources and the nodes that the step appended
NewSources == SubSeq(sources', Len(sources) + 1, Len(sources'))
NewNodes == SubSeq(nodes', Len(nodes) + 1, Len(nodes'))

\* C19: playBinaural(base, beat) builds exactly two oscillators, both sine,
\* into one two-channel merger: the left at clampFreq(base) on input 0, the
\* right at clampFreq(base + beat) on input 1; when base and base + beat are
\* in [20, 20000] their difference is beat.
C19_BinauralLeftRight ==
    [][ Builds("binaural") =>
          LET r == Requests[Head(mq).req]
              lo == Min(Max(r.freq, 20), 20000)
              hi == Min(Max(r.freq + r.a, 20), 20000)
          IN  /\ Len(NewSources) = 2
              /\ \A i \in 1..2 : NewSources[i].kind = "osc" /\ NewSources[i].type = "sine"
              /\ NewSources[1].freq = lo /\ NewSources[1].input = 0
              /\ NewSources[2].freq = hi /\ NewSources[2].input = 1
              /\ Len(NewNodes) = 1 /\ NewNodes[1].kind = "merger"
              /\ (InFreqRange(r.freq) /\ InFreqRange(r.freq + r.a))
                    => NewSources[2].freq - NewSources[1].freq = r.a ]_vars

\* playBinaural(400, 10) is live: 400 Hz on input 0, 410 Hz on input 1
C19_Witness ==
    /\ playing
    /\ Len(sources) = 2
    /\ sources[1].role = "left" /\ sources[1].freq = 400 /\ sources[1].input = 0
    /\ sources[2].role = "right" /\ sources[2].freq = 410 /\ sources[2].input = 1

\* the ratios of the claim, in thousandths
ClaimedRatios == <<773, 867, 1133, 1227>>

\* C20: playCoordinatedReset(c, tempo) builds exactly four oscillators, all
\* sine, the i-th at clampFreq(c x r_i) for r = 0.773, 0.867, 1.133, 1.227,
\* and four gain nodes, the i-th oscillator behind the i-th, each created
\* with gain 0 (the first tick, made in the same call, then raises one of
\* them); c = 4000 gives 3092, 3468, 4532, 4908 Hz.
C20_FourClampedTones ==
    [][ Builds("cr") =>
          LET c == Requests[Head(mq).req].freq
          IN  /\ Len(NewSources) = 4
              /\ Len(NewNodes) = 4
              /\ \A i \in 1..4 :
                    /\ NewSources[i].kind = "osc"
                    /\ NewSources[i].type = "sine"
                    /\ NewSources[i].freq = Min(Max((c * ClaimedRatios[i]) \div 1000, 20), 20000)
                    /\ NewNodes[i].kind = "gain"
                    /\ NewNodes[i].idx = i - 1
                    /\ NewNodes[i].owner = NewSources[i].owner
                    /\ NewNodes[i].init = 0
              /\ Cardinality({i \in 1..4 : NewNodes[i].gain # 0}) = 1
              /\ c = 4000 => [i \in 1..4 |-> NewSources[i].freq] = <<3092, 3468, 4532, 4908>> ]_vars

\* playCoordinatedReset(4000, tempo) is live with its four tones, each behind
\* a gain created at 0
C20_Witness ==
    /\ playing
    /\ Len(sources) = 4
    /\ Len(nodes) = 4
    /\ \A i \in 1..4 : sources[i].role = "cr" /\ nodes[i].init = 0 /\ nodes[i].idx = i - 1
    /\ [i \in 1..4 |-> sources[i].freq] = <<3092, 3468, 4532, 4908>>

\* C21: in Advanced Mode the value programmed into the Tuner's master gain
\* never exceeds 0.45, for every volume of the slider and every waveform
C21_TunerGainWithinCap == masterGainRef <= MAX_SAFE_GAIN

\* C22: from the stop of an active session until its hard teardown the master
\* gain's target stays 0; no setVolume() in the fade-out delay re-raises it
C22_FadeOutTargetStaysZero == fadeOutAge >= 0 => masterGain.target = 0

\* the stop() whose timeout t is may tear the live sources down: a stop() or
\* play* issued after they were built, or their own auto-stop
MayTearDown(t) ==
    IF t.cont.k = "riFinish"
    THEN \A j \in DOMAIN sources : sources[j].owner = t.cont.inv
    ELSE ~t.old

\* C23: a session is torn down only by a stop() or play* issued after it was
\* built or by its own residual-inhibition expiry; the auto-stop of an earlier
\* residual-inhibition session never tears down a later session's graph
C23_TornDownOnlyByLaterStopOrOwnExpiry ==
    [][ \A i \in DOMAIN timers :
            (Due(i) /\ timers[i].kind = "stop" /\ sources # << >> /\ sources' = << >>)
                => MayTearDown(timers[i]) ]_vars

\* C24: a sequencer interval is registered only while the coordinated-reset
\* session that registered it is live: none exists when the engine is idle or
\* plays another mode, whatever the interleaving of playCoordinatedReset calls
C24_IntervalOnlyWhileCoordinatedResetLive ==
    \A i \in DOMAIN timers :
        timers[i].kind = "seq" =>
            /\ playing
            /\ \E j \in DOMAIN sources :
                   sources[j].role = "cr" /\ sources[j].owner = timers[i].owner

\* in this step a play* resumes from its awaited stop() and starts a session
Starts ==
    /\ mq # << >>
    /\ Head(mq).k = "play"
    /\ mq' \in {Tail(mq),
                Append(Tail(mq), [k |-> "riArm", req |-> Head(mq).req, inv |-> Head(mq).inv])}

ScaledModes == {"tone", "noise", "notch"}

\* the start programmed the floor and then a ramp to pct percent of the
\* volume, after the graph was built and the playing flag set
FadeInProgrammed(pct) ==
    /\ masterGain'.value = FADE_FLOOR
    /\ masterGain'.target = FadeTarget(pct)
    /\ masterGain'.by = "fadeIn"
    /\ masterGain'.ready

\* C25 as stated: every play* start programs the master gain to the floor
\* 0.0001 and then to a ramp toward max(clampGain(volume x scalar), 0.0001),
\* scalar being the equalization (1.0 for a name outside the table) in the
\* tone and noise modes and 1 in the sine-based modes, after the graph is
\* built and the playing flag set.
C25_FadeInFloorThenRamp ==
    [][ Starts =>
          LET r == Requests[Head(mq).req]
          IN  FadeInProgrammed(IF r.op \notin ScaledModes THEN 100
                               ELSE IF r.wave \in DOMAIN ClaimedTable
                                    THEN ClaimedTable[r.wave] ELSE 100) ]_vars

\* C25 amended: the same, the scalar of a noise colour outside the table
\* being 0.3 in playNoise and playNotchedNoise.
C25_FadeInFloorThenRampPerOperation ==
    [][ Starts =>
          LET r == Requests[Head(mq).req]
          IN  FadeInProgrammed(IF r.op \notin ScaledModes THEN 100
                               ELSE IF r.wave \in DOMAIN ClaimedTable
                                    THEN ClaimedTable[r.wave]
                                    ELSE IF r.op = "tone" THEN 100 ELSE 30) ]_vars

\* a square tone has started: the master gain is at the floor and ramps to
\* 0.15 of a non-zero volume, programmed with the flag set and the source pushed
C25_Witness ==
    /\ playing
    /\ Len(sources) = 1
    /\ sources[1].type = "square"
    /\ masterGain.by = "fadeIn"
    /\ masterGain.ready
    /\ masterGain.value = FADE_FLOOR
    /\ vol > 0
    /\ masterGain.target = (vol * 15) \div 100

\* C26: the completion callback of a residual-inhibition session is invoked
\* only after the stop() of its expiry has torn the tone's graph down, the
\* fade-out delay having passed; and no auto-stop timeout outlives the
\* teardown of its tone, so no callback follows a teardown that a stop()
\* completed before the expiry
C26_CallbackOnlyAfterOwnTeardown ==
    /\ (mq # << >> /\ Head(mq).k = "riFinish") =>
            /\ \A j \in DOMAIN sources : sources[j].owner # Head(mq).inv
            /\ stopResolved = {[live |-> TRUE, after |-> StopDelay]}
    /\ \A i \in DOMAIN timers :
            timers[i].kind = "ri" =>
                \E j \in DOMAIN sources : sources[j].owner = timers[i].owner

\* the tone gains of the coordinated-reset session of invocation o
ToneGains(o) == {i \in GainNodes : nodes[i].type = "tone" /\ nodes[i].owner = o}

Rising(o) == {i \in ToneGains(o) : nodes[i].gain # 0}

\* C27: in a live coordinated-reset session, whose first tick ran inside
\* playCoordinatedReset, exactly one of the four tone gains has a non-zero
\* target, the one of the index selected last, and the other three have
\* target 0; all four were created at 0
C27_OneToneRising ==
    \A i \in GainNodes :
        nodes[i].type = "tone" =>
            LET o == nodes[i].owner
            IN  /\ Cardinality(ToneGains(o)) = 4
                /\ \A j \in ToneGains(o) : nodes[j].init = 0
                /\ Cardinality(Rising(o)) = 1
                /\ \A t \in Intervals :
                       timers[t].owner = o =>
                           \A j \in ToneGains(o) :
                               (nodes[j].gain # 0) <=> (nodes[j].idx = timers[t].cur)

\* the interval has ticked in a playing session: one tone is rising, three
\* are at 0
C27_Witness ==
    \E t \in Intervals :
        /\ timers[t].ticked
        /\ playing
        /\ Cardinality(Rising(timers[t].owner)) = 1
        /\ Cardinality(ToneGains(timers[t].owner) \ Rising(timers[t].owner)) = 3

\* in this step the callback of interval i ran
SeqFires(i) ==
    /\ Due(i)
    /\ i \in Intervals
    /\ mq' = mq
    /\ Len(timers') = Len(timers)
    /\ timers' # timers

\* C28: playCoordinatedReset makes the first tick itself, with the playing
\* flag set: when it returns a tone is selected and rising, and the interval
\* it registered has not ticked and is due a whole tempo later; after every
\* callback the interval is due a whole tempo later again
C28_FirstTickInsidePlay ==
    [][ /\ Builds("cr") =>
              LET t == timers'[Len(timers')]
              IN  /\ playing'
                  /\ t.kind = "seq"
                  /\ t.id = sequencerTimer'
                  /\ ~t.ticked
                  /\ t.cur \in 0..3
                  /\ t.rem = Requests[Head(mq).req].a
                  /\ t.tempo = Requests[Head(mq).req].a
                  /\ Len(NewNodes) = 4
                  /\ \A j \in 1..4 :
                        NewNodes[j].gain = IF NewNodes[j].idx = t.cur THEN CR_TONE_TARGET ELSE 0
        /\ \A i \in DOMAIN timers :
              SeqFires(i) =>
                  LET t == timers'[Len(timers')]
                  IN  t.kind = "seq" /\ t.id = timers[i].id /\ t.rem = timers[i].tempo ]_vars

\* playCoordinatedReset has returned and no time has passed: a tone is rising
\* and the interval has not ticked
C28_Witness ==
    \E t \in Intervals :
        /\ ~timers[t].ticked
        /\ timers[t].rem = timers[t].tempo
        /\ mq = << >>
        /\ playing
        /\ \E j \in ToneGains(timers[t].owner) :
               nodes[j].idx = timers[t].cur /\ nodes[j].gain = CR_TONE_TARGET

\* C29: playNoise inserts a bandpass filter at clampFreq(centerFrequency)
\* whenever a centre frequency is supplied, 0 and values below 20 included,
\* and wires the source directly only when the argument is omitted
C29_BandpassWheneverCenterSupplied ==
    [][ Builds("noise") =>
          LET r == Requests[Head(mq).req]
          IN  /\ Len(NewSources) = 1
              /\ NewSources[1].kind = "buf"
              /\ IF r.given
                 THEN /\ Len(NewNodes) = 1
                      /\ NewNodes[1].kind = "biquad"
                      /\ NewNodes[1].type = "bandpass"
                      /\ NewNodes[1].freq = Min(Max(r.freq, 20), 20000)
                 ELSE NewNodes = << >> ]_vars

\* a sequence of sources or nodes with the frequencies left out: which nodes
\* there are, not what their parameters hold
Identities(seq) == [i \in DOMAIN seq |-> [seq[i] EXCEPT !.freq = 0]]

\* this step is a call of one of the three live updates
LiveUpdate ==
    \/ \E v \in Volumes : CallSetVolume(v)
    \/ \E f \in UpdateFreqs : CallUpdateOscFrequency(f)
    \/ \E f \in UpdateFreqs : CallUpdateFilterFrequency(f)

\* C30: setVolume, updateOscFrequency and updateFilterFrequency never rebuild
\* the graph: the live sources, the intermediate nodes, the master chain and
\* its connections, the pending timers, the playing flag and the noise cache
\* are the same after the call, and no node is created; setVolume on an
\* engine that is not playing changes the stored volume only
C30_LiveUpdatesKeepGraph ==
    [][ /\ LiveUpdate =>
              /\ Identities(sources') = Identities(sources)
              /\ Identities(nodes') = Identities(nodes)
              /\ timers' = timers
              /\ mq' = mq
              /\ playing' = playing
              /\ noiseCache' = noiseCache
              /\ ctx' = ctx /\ made' = made /\ edges' = edges
              /\ masterGain'.id = masterGain.id
              /\ limiter' = limiter /\ analyser' = analyser
              /\ sequencerTimer' = sequencerTimer /\ riTimeout' = riTimeout
        /\ (~playing /\ \E v \in Volumes : CallSetVolume(v)) =>
              /\ masterGain' = masterGain
              /\ sources' = sources
              /\ nodes' = nodes ]_vars

\* setVolume(0.3) was called on an engine that holds a master gain and is not
\* playing: the volume is stored and the gain is as the fade-out left it
C30_Witness ==
    /\ ~playing
    /\ volArg = {3000}
    /\ vol = 3000
    /\ masterGain.id # 0
    /\ masterGain.by = "fadeOut"

\* C31: updateOscFrequency(f) sets every live oscillator to clampFreq(f),
\* whatever the mode: both binaural channels, all four coordinated-reset
\* tones, the carrier and the modulation oscillator alike
C31_EveryOscillatorSetToClamped ==
    [][ \A f \in UpdateFreqs :
            (CallUpdateOscFrequency(f) \/ DestroyCallUpdateOscFrequency(f)) =>
                \A i \in DOMAIN sources' :
                    sources'[i].kind = "osc" => sources'[i].freq = Min(Max(f, 20), 20000) ]_vars

\* the timers with the marks of stop() left out
Unmarked(ts) ==
    [i \in DOMAIN ts |-> IF ts[i].kind \in {"ri", "seq"} THEN [ts[i] EXCEPT !.dead = FALSE]
                                                         ELSE ts[i]]

\* this step is a call of stop() by the caller
StopCalled == CallStop \/ SeqCallStop \/ RiCallStop

\* C32: stop() on an engine with no active session tears down at once and is
\* idempotent: it registers no timer and programs no fade-out, its promise is
\* resolved when it returns (the caller's continuation is queued in the same
\* step), and the engine is left in the idle state it was in
C32_IdleStopIsSynchronousAndIdempotent ==
    [][ (StopCalled /\ ~playing /\ sources = << >>) =>
            /\ Unmarked(timers') = Unmarked(timers)
            /\ mq' = Append(mq, [k |-> "caller", req |-> 0, inv |-> ncalls + 1])
            /\ stopResolved' = {[live |-> FALSE, after |-> 0]}
            /\ ~playing' /\ sources' = << >> /\ nodes' = nodes /\ nodes' = << >>
            /\ sequencerTimer' = 0 /\ riTimeout' = 0
            /\ sequencerTimer = 0 /\ riTimeout = 0
            /\ masterGain' = masterGain
            /\ ctx' = ctx /\ limiter' = limiter /\ analyser' = analyser /\ edges' = edges
            /\ vol' = vol /\ noiseCache' = noiseCache ]_vars

\* a residual-inhibition session has expired and been torn down, and a stop()
\* called on the idle engine has resolved at once
C32_Witness ==
    /\ finished = 1
    /\ ncalls = 2
    /\ Idle
    /\ Quiet
    /\ stopSeen = "clean"
    /\ stopResolved = {[live |-> FALSE, after |-> 0]}
    /\ masterGain.id # 0

\* C33: destroy() releases the master chain only after the teardown of its
\* own stop(): when destroy's timeout runs, the timeout of that stop() has
\* run (or the engine was idle and the teardown was made at once); the
\* callback drops the context and the gain, limiter and analyser handles, so
\* the analyserNode getter returns null
C33_ReleaseAfterTeardown ==
    [][ FireDestroy =>
            /\ \A i, j \in DOMAIN timers :
                  (Due(i) /\ timers[i].kind = "destroy" /\ timers[j].kind = "stop")
                      => ~(timers[j].cont.k = "none" /\ timers[j].cont.inv = timers[i].owner)
            /\ ctx' = 0
            /\ masterGain'.id = 0
            /\ limiter' = 0
            /\ analyser' = 0 ]_vars

\* destroy() was called on a playing engine: the session was torn down, then
\* the context and the chain were released
C33_Witness ==
    /\ destroyed # 0
    /\ ctxMade > 0
    /\ ctx = 0
    /\ analyser = 0
    /\ Idle
    /\ Quiet
    /\ stopResolved = {[live |-> TRUE, after |-> StopDelay]}

\* C34: the noise cache is released with the context: once destroy() has
\* completed the cache holds no buffer, so every cached buffer was created
\* under the context that is open and none created under a closed context
\* is handed to a later request
C34_CacheReleasedByDestroy ==
    \A c \in Colors : noiseCache[c] # 0 => noiseCache[c] = ctx

\* C35: whenever isPlaying is true the audio context is open and the master
\* gain, limiter and analyser handles are non-null, a play* issued during
\* the delay of destroy() included
C35_PlayingImpliesChain ==
    playing => (ctx # 0 /\ masterGain.id # 0 /\ limiter # 0 /\ analyser # 0)

\* C36: between the engine's synchronous blocks isPlaying is true exactly
\* when the list of live sources is non-empty: the flag stays set during the
\* fade-out window and the hard teardown clears both together
C36_PlayingIffSources ==
    /\ playing <=> (sources # << >>)
    /\ fadeOutAge >= 0 => playing

\* the fade-out window of a session: a stop() has programmed the master gain
\* toward 0, the flag is set and the sources are live
C36_Witness ==
    /\ fadeOutAge > 0
    /\ playing
    /\ sources # << >>
    /\ masterGain.by = "fadeOut"
    /\ \E i \in DOMAIN timers : timers[i].kind = "stop" /\ timers[i].rem > 0

\* C37: playAM(freq, rate, depth) gives the output stage the base gain
\* 1 - depth/2 and the modulation the swing depth/2, so base + swing = 1 for
\* every depth; for a depth in [0, 1] the stage gain, base - swing at its
\* least and base + swing at its most, stays within [1 - depth, 1], never
\* negative and never above 1
C37_AmStageGain ==
    [][ (mq # << >> /\ Head(mq).k = "playAM" /\ mq' = Tail(mq)) =>
          LET d == Head(mq).req
              swing == NewNodes[1].gain
              base == NewNodes[2].gain
          IN  /\ Len(NewNodes) = 2
              /\ NewNodes[1].type = "lfoGain" /\ NewNodes[2].type = "out"
              /\ 2 * swing <= d /\ d <= 2 * swing + 1
              /\ base = UNITY - swing
              /\ base + swing = UNITY
              /\ (0 <= d /\ d <= UNITY) =>
                    /\ UNITY - d <= base - swing
                    /\ 0 <= base - swing
                    /\ base + swing <= UNITY ]_vars

\* playAM with depth 0.7 has built its stages: swing 0.35, base 0.65
C37_Witness ==
    /\ playing
    /\ Len(nodes) = 2
    /\ nodes[1].type = "lfoGain" /\ nodes[1].gain = 3500
    /\ nodes[2].type = "out" /\ nodes[2].gain = 6500

\* C38: every sequencer tick terminates: under fair random draws a tick that
\* entered the rejection loop leaves it with an index different from the one
\* it entered with, and on the first tick (cur = -1) the loop ends after a
\* single draw
C38_TickTerminates ==
    /\ [](loopCur = -1 => (loopPc = "draw" => loopDraws = 0) /\ (loopPc = "test" => loopDraws = 1))
    /\ [][loopPc = "test" /\ loopPc' = "idle" => loopCur' # loopCur]_vars
    /\ (loopPc # "idle") ~> (loopPc = "idle")

\* a later tick drew its current index again and is about to draw once more
C38_Witness ==
    /\ loopCur >= 0
    /\ loopPc = "draw"
    /\ loopDraws >= 2

\* C39: in the Wizard the step is always one of the four steps 0..3 and
\* onComplete is invoked only from the CONFIRM step, whatever Next and Back
\* clicks arrive, a click while an earlier click's stop is pending included
C39_StepWithinEnum ==
    /\ wizStep \in DISCLAIMER..CONFIRM
    /\ completedAt \subseteq {CONFIRM}

====
